---- MODULE Spec2Model ----
(***************************************************************************)
(* TikSave: a model of the single-page downloader front ends.              *)
(*                                                                         *)
(* Three variants of the App component are modelled:                       *)
(*   "index"  - src/index.tsx, first App (lines 27-626)                    *)
(*   "v1"     - src/unnamed/part_000, first App (lines 30-790): the        *)
(*              five-strategy download handler                             *)
(*   "slides" - src/unnamed/part_000, second App (lines 919-1756): the     *)
(*              slideshow variant with fetchBlob and downloadCount         *)
(*                                                                         *)
(* Every asynchronous handler is cut at its await points: one action per   *)
(* synchronous segment, as the browser's event loop runs it.               *)
(***************************************************************************)
EXTENDS Integers, Sequences, FiniteSets, TLC

VARIABLES
    variant,        \* which App is running
    result,         \* useState result: NoResult or a VideoData record
    isDownloading,  \* useState isDownloading
    error,          \* useState error: Null or a message
    toast,          \* slideshow variant: the message of the latest addToast call
    dlPc,           \* position of the download handler: "idle", "await", "done"
    dlIdx,          \* index of the strategy the handler is awaiting (0: none)
    blob,           \* the handler's local `blob`: NoBlob or a blob
    dlReqs,         \* strategies invoked by the current call, in order
    dlInflight,     \* strategies of the current call whose request is pending
    dlPlan,         \* what each strategy's request of the current call comes to
    dlSaved,        \* blobs materialized (object URL + anchor click) by the call
    downloads,      \* number of handler calls started
    url,            \* useState url: the text of the input field
    isLoading,      \* useState isLoading
    history,        \* useState history: HistoryItem records, newest first
    stored,         \* localStorage entry "tiksave-history"
    historyEffect,  \* TRUE while the effect on [history] has still to run
    lastHistoryOp,  \* the last handler that set history: "none", "add", "clear"
    clock,          \* Date.now()
    lookups,        \* handleProcess calls suspended at their fetch
    calls,          \* number of lookup requests issued
    submitted,      \* the links of the lookup requests issued, in order
    downloadCount,  \* slideshow variant: useState downloadCount
    storedCount,    \* localStorage entry "tiksave-download-count"
    autoDownload,   \* useState autoDownload
    timers,         \* auto-download timers armed by handleProcess
    objUrls,        \* object URLs created so far: clicked, revoked, revoke timer
    autoCalls,      \* handleDownload calls made by auto-download timers
    batchPc,        \* position of handleBatchDownload: "idle", "await", "done"
    imgIdx,         \* per image: the fetchBlob strategy awaited (0: settled)
    imgOuts,        \* per image: what its requests have come to, in order
    zip,            \* the archive's entries: image number and blob
    theme,          \* useState theme
    storedTheme,    \* localStorage entry "tiksave-theme"
    themeEffect,    \* TRUE while the effect on [theme] has still to run
    systemDark,     \* matchMedia("(prefers-color-scheme: dark)").matches
    toggles,        \* number of theme toggles so far
    names           \* the filenames derived so far, with what they are derived from

dlVars == <<isDownloading, dlPc, dlIdx, blob, dlReqs,
            dlInflight, dlPlan, dlSaved, downloads, objUrls, autoCalls>>
batchVars == <<batchPc, imgIdx, imgOuts, zip>>
themeVars == <<theme, storedTheme, themeEffect, systemDark, toggles>>
appVars == <<url, isLoading, history, stored, historyEffect, lastHistoryOp,
             clock, lookups, calls, submitted, downloadCount, storedCount,
             autoDownload,
             timers>>
vars == <<variant, result, error, toast, dlVars, appVars, batchVars, themeVars,
          names>>

Null == "null"

\* JavaScript null for the handler's local `blob`.
NoBlob == [src |-> 0, size |-> 0, ok |-> FALSE]
\* JavaScript null for the `result` state.
NoResult == [id |-> 0, images |-> FALSE]

\* the argument of .slice(0, n) in addToHistory
HistoryMax(v) == IF v = "slides" THEN 50 ELSE 10

\* ---- bounds ----
MaxDownloads == 1
MaxImages == 2
MaxToggles == 4
MaxNames == 2
MaxLookups == 2
FreshIds == 1

\* the ids the lookup service answers with: the front and the tail of a full
\* history list, and ids no stored list holds
LookupIds(v) == {1, HistoryMax(v)} \cup {HistoryMax(v) + 1 + k : k \in 1..FreshIds}

\* ---- messages ----
DownloadFailedMsg == "Download failed. The server might be blocking requests. Please try again in a few moments."
DownloadFailedToast == "Download failed. Try manual."
DownloadStartedToast == "downloadStarted"
DownloadLinkMissingMsg == "Download link not available."

\* ---- the acquisition chain ----

\* the byte lengths of the bodies: an empty body and a non-empty one
BodySizes == {0, 1}

\* What one request of the chain can come to: the fetch promise rejects, or
\* it resolves to a response with an ok flag whose body has `size` bytes.
Outcomes ==
    {[kind |-> "reject", ok |-> FALSE, size |-> 0]} \cup
    [kind : {"response"}, ok : BOOLEAN, size : BodySizes]

\* faulty variant: the direct fetch is tried before the proxies
strategies_directFirst(v) ==
    IF v = "v1"
    THEN <<"direct", "corsproxy", "codetabs", "thingproxy", "allorigins">>
    ELSE <<"direct", "corsproxy", "codetabs">>

\* The strategies of the running variant's download handler, in the order
\* the code tries them.
strategies(v) ==
    CASE v = "v1" -> <<"corsproxy", "codetabs", "thingproxy", "allorigins", "direct">>
      [] v = "index" -> <<"direct", "corsproxy", "allorigins">>
      [] v = "part1" -> <<"direct", "corsproxy">>
      [] OTHER -> <<"corsproxy", "codetabs", "direct">>

\* faulty variant: the response's ok flag is not tested
strategyResult_ignoresOk(v, k, o) ==
    IF o.kind = "reject" THEN NoBlob
    ELSE [src |-> k, size |-> o.size, ok |-> o.ok]

\* One strategy applied to the outcome of its request: the blob it resolves
\* to, or NoBlob when it throws (or, in src/index.tsx, leaves blob null).
\* fetchBlob's strategies do not look at the response's ok flag.
strategyResult(v, k, o) ==
    IF o.kind = "reject" THEN NoBlob
    ELSE IF v # "slides" /\ ~o.ok THEN NoBlob
    ELSE [src |-> k, size |-> o.size, ok |-> o.ok]

\* The chain's exit test on the blob a strategy resolved to: a non-empty blob
\* in the two loops, any blob in the handlers of src/index.tsx and part_001.
loopStops(v, b) ==
    IF v \in {"v1", "slides"} THEN b # NoBlob /\ b.size > 0 ELSE b # NoBlob

\* The test that decides, after the chain, whether a file is materialized.
materializes(v, b, stopped) ==
    IF v \in {"v1", "index"} THEN b # NoBlob ELSE stopped

\* The handler's `blob` after a strategy has settled with r.  The five-strategy
\* loop and src/index.tsx assign every blob a strategy resolves to; fetchBlob
\* and part_001 hand over only the blob the chain stops on.
keptBlob(v, old, r) ==
    IF v \in {"v1", "index"}
    THEN (IF r = NoBlob THEN old ELSE r)
    ELSE (IF loopStops(v, r) THEN r ELSE NoBlob)

\* what the endpoints can answer to the requests of one call
Plans(v) == [1..Len(strategies(v)) -> Outcomes]

\* the chain's step from the strategy at index k
nextIndex(k) == k + 1

\* faulty variant: the blob of the call before is still there
freshBlob_stale == blob

\* the value `blob` is declared with at the start of a call
freshBlob == NoBlob

\* The object URL a materialization creates.  The anchor is clicked in the
\* same synchronous block; part_000 revokes from a 100 ms timer,
\* src/index.tsx and part_001 revoke right after the click.
objectUrl(v, path) ==
    [path |-> path, clicked |-> TRUE,
     revoked |-> v \in {"index", "part1"},
     timer |-> v \in {"v1", "slides"}]

\* faulty variant: the failure path sets no message
downloadFailedMsg_none(v) == Null

\* the message of the handler's failure path
downloadFailedMsg(v) ==
    CASE v = "v1" -> DownloadFailedMsg
      [] v = "index" -> "Download failed. The server might be blocking requests."
      [] v = "part1" -> "Automatic download failed. Opening video..."
      [] OTHER -> Null

\* handleDownload up to its first await: the guard, the state resets and
\* the first strategy's request.  Reached by a click on a download button,
\* which is disabled while isDownloading.  The call's plan, drawn from
\* plans, is what the endpoints will answer to its requests, one outcome per
\* strategy; maxCalls caps the number of calls.  With no file
\* URL the handlers of part_000 return at once and the handler of
\* src/index.tsx reports the missing link; part_001 does not look at it.
startDownload(fileUrl, maxCalls, plans) ==
    /\ result # NoResult
    /\ ~isDownloading
    /\ dlPc \in {"idle", "done"}
    /\ IF fileUrl = "" /\ variant # "part1"
       THEN /\ variant = "index"
            /\ error' = DownloadLinkMissingMsg
            /\ UNCHANGED <<dlVars, toast>>
       ELSE /\ downloads < maxCalls
            /\ downloads' = downloads + 1
            /\ isDownloading' = TRUE
            /\ error' = IF variant = "slides" THEN error ELSE Null
            /\ blob' = freshBlob
            /\ dlPc' = "await"
            /\ dlIdx' = 1
            /\ dlReqs' = <<strategies(variant)[1]>>
            /\ dlInflight' = {1}
            /\ dlPlan' \in plans
            /\ dlSaved' = <<>>
            /\ UNCHANGED <<toast, objUrls, autoCalls>>
    /\ UNCHANGED <<variant, result, appVars, batchVars, themeVars, names>>

handleDownload(fileUrl) == startDownload(fileUrl, MaxDownloads, Plans(variant))

\* The continuation after the awaited strategy settles: the rest of the chain
\* step, then either the next strategy's request or the code after the chain
\* (materialize or fail, and the finally block).  When both requests of
\* part_001 have failed its handler clicks an anchor on the file URL itself,
\* which creates no object URL.
strategySettles ==
    LET k == dlIdx
        r == strategyResult(variant, k, dlPlan[k])
        b == keptBlob(variant, blob, r)
        stopped == loopStops(variant, r)
        last == k = Len(strategies(variant))
    IN  /\ dlPc = "await"
        /\ k \in dlInflight
        /\ blob' = b
        /\ IF stopped \/ last
           THEN /\ dlPc' = "done"
                /\ dlIdx' = 0
                /\ dlInflight' = dlInflight \ {k}
                /\ dlReqs' = dlReqs
                /\ isDownloading' = FALSE
                /\ IF materializes(variant, b, stopped)
                   THEN /\ dlSaved' = Append(dlSaved, b)
                        /\ objUrls' = Append(objUrls, objectUrl(variant, "file"))
                        /\ error' = error
                        /\ toast' = IF variant = "slides"
                                     THEN DownloadStartedToast
                                     ELSE toast
                   ELSE /\ dlSaved' = dlSaved
                        /\ objUrls' = objUrls
                        /\ error' = IF variant = "slides"
                                     THEN error
                                     ELSE downloadFailedMsg(variant)
                        /\ toast' = IF variant = "slides"
                                     THEN DownloadFailedToast
                                     ELSE toast
           ELSE /\ dlPc' = "await"
                /\ dlIdx' = nextIndex(k)
                /\ dlReqs' = Append(dlReqs, strategies(variant)[nextIndex(k)])
                /\ dlInflight' = (dlInflight \ {k}) \cup {nextIndex(k)}
                /\ UNCHANGED <<isDownloading, error, toast, dlSaved, objUrls>>
        /\ UNCHANGED <<variant, result, downloads, dlPlan, autoCalls, appVars,
                       batchVars, themeVars, names>>

\* the timer armed after the click: window.URL.revokeObjectURL(blobUrl)
revokeTimerFires(i) ==
    /\ i \in 1..Len(objUrls)
    /\ objUrls[i].timer
    /\ objUrls' = [objUrls EXCEPT ![i] = [@ EXCEPT !.revoked = TRUE, !.timer = FALSE]]
    /\ UNCHANGED <<variant, result, error, toast, isDownloading, dlPc, dlIdx,
                   blob, dlReqs, dlInflight, dlPlan, dlSaved, downloads,
                   autoCalls, appVars, batchVars, themeVars, names>>

\* ---- the batch archiver (slideshow variant) ----

BatchStartedToast == "batchStarted"

\* result.images of the displayed slideshow: the numbers of its images
imagesOf(r) == IF r.images THEN 1..MaxImages ELSE {}

\* handleBatchDownload up to its first await: the guard, the start toast and
\* the map over result.images, which runs every callback up to the first
\* request of its fetchBlob call.
handleBatchDownload ==
    /\ variant = "slides"
    /\ result # NoResult /\ result.images
    /\ ~isDownloading
    /\ dlPc \in {"idle", "done"}
    /\ batchPc \in {"idle", "done"}
    /\ downloads < MaxDownloads
    /\ downloads' = downloads + 1
    /\ isDownloading' = TRUE
    /\ toast' = BatchStartedToast
    /\ batchPc' = "await"
    /\ imgIdx' = [i \in imagesOf(result) |-> 1]
    /\ imgOuts' = [i \in imagesOf(result) |-> <<>>]
    /\ zip' = {}
    /\ UNCHANGED <<variant, result, error, dlPc, dlIdx, blob, dlReqs, dlInflight,
                   dlPlan, dlSaved, objUrls, autoCalls, appVars, themeVars, names>>

\* faulty variant: the entries are numbered as they arrive
entryName_arrival(i, z) == Cardinality(z) + 1

\* the number in the entry name `image_${i + 1}.jpg` of the image at index
\* i - 1 of result.images, given the entries z the archive holds
entryName(i, z) == i

\* The continuation of image i's callback when the request it awaits comes to
\* o: the rest of fetchBlob's loop step, then the next strategy's request,
\* or folder.file(...) with the blob fetchBlob returned, or the callback's
\* catch block when fetchBlob threw.
imageSettles(i, o) ==
    LET k == imgIdx[i]
        r == strategyResult(variant, k, o)
        stopped == loopStops(variant, r)
        last == k = Len(strategies(variant))
    IN  /\ batchPc = "await"
        /\ i \in DOMAIN imgIdx
        /\ k > 0
        /\ imgOuts' = [imgOuts EXCEPT ![i] = Append(@, o)]
        /\ imgIdx' = [imgIdx EXCEPT ![i] = IF stopped \/ last THEN 0 ELSE nextIndex(k)]
        /\ zip' = IF stopped
                  THEN zip \cup {[image |-> entryName(i, zip), blob |-> r]}
                  ELSE zip
        /\ UNCHANGED <<variant, result, error, toast, dlVars, batchPc, appVars,
                       themeVars, names>>

\* The continuation after Promise.all: generateAsync, the object URL and the
\* anchor click, the toast and the finally block.  No revokeObjectURL call
\* follows the click.
batchFinishes ==
    /\ batchPc = "await"
    /\ \A i \in DOMAIN imgIdx : imgIdx[i] = 0
    /\ batchPc' = "done"
    /\ objUrls' = Append(objUrls, [path |-> "zip", clicked |-> TRUE,
                                   revoked |-> FALSE, timer |-> FALSE])
    /\ toast' = DownloadStartedToast
    /\ isDownloading' = FALSE
    /\ UNCHANGED <<variant, result, error, dlPc, dlIdx, blob, dlReqs, dlInflight,
                   dlPlan, dlSaved, downloads, autoCalls, imgIdx, imgOuts, zip,
                   appVars, themeVars, names>>

\* ---- text: a string is a sequence of one-character strings ----

Whitespace == {" ", "\t", "\n"}
TrailingPunct == {".", ",", ";", "!", "?", ")"}
Digits == {"0", "1", "2", "3", "4", "5", "6", "7", "8", "9"}
\* \w of the regular expressions
WordChars ==
    Digits \cup {"_"} \cup
    {"a", "b", "c", "d", "e", "f", "g", "h", "i", "j", "k", "l", "m",
     "n", "o", "p", "q", "r", "s", "t", "u", "v", "w", "x", "y", "z",
     "A", "B", "C", "D", "E", "F", "G", "H", "I", "J", "K", "L", "M",
     "N", "O", "P", "Q", "R", "S", "T", "U", "V", "W", "X", "Y", "Z"}

Domain == <<"t", "i", "k", "t", "o", "k", ".", "c", "o", "m">>
DomainSlash == <<"t", "i", "k", "t", "o", "k", ".", "c", "o", "m", "/">>
Prefixes == {<<>>, <<"w", "w", "w", ".">>, <<"v", "m", ".">>, <<"v", "t", ".">>,
             <<"m", ".">>, <<"t", ".">>}

\* lit occurs in s starting at index i
HasAt(s, i, lit) ==
    /\ i >= 1
    /\ i + Len(lit) - 1 <= Len(s)
    /\ \A j \in 1..Len(lit) : s[i + j - 1] = lit[j]

\* String.prototype.includes
includes(s, lit) == \E i \in 1..(Len(s) + 1) : HasAt(s, i, lit)

\* !input.trim(): nothing but whitespace
isBlank(s) == \A i \in 1..Len(s) : s[i] \in Whitespace

\* the index of the last character of the run of characters of class C that
\* starts at i (i - 1 when s[i] is not in C)
RECURSIVE RunEnd(_, _, _)
RunEnd(s, i, C) ==
    IF i <= Len(s) /\ s[i] \in C THEN RunEnd(s, i + 1, C) ELSE i - 1

NonSpace(s) == {s[i] : i \in 1..Len(s)} \ Whitespace

\* Where a match of https?:\/\/(?:www\.|vm\.|vt\.|m\.|t\.)?tiktok\.com\/[^\s]+
\* that starts at i ends, or 0 when there is none.
UrlMatchEnd(s, i) ==
    IF ~HasAt(s, i, <<"h", "t", "t", "p">>) THEN 0
    ELSE LET j == IF HasAt(s, i + 4, <<"s">>) THEN i + 5 ELSE i + 4
             k == j + 3
             ps == {p \in Prefixes : HasAt(s, k, p \o DomainSlash)}
         IN  IF ~HasAt(s, j, <<":", "/", "/">>) \/ ps = {} THEN 0
             ELSE LET p == CHOOSE q \in ps : TRUE
                      b == k + Len(p) + Len(DomainSlash)
                      e == RunEnd(s, b, NonSpace(s))
                  IN  IF e >= b THEN e ELSE 0

\* faulty variant: only one trailing character is removed
StripTrailingPunct_once(s) ==
    IF Len(s) > 0 /\ s[Len(s)] \in TrailingPunct THEN SubSeq(s, 1, Len(s) - 1) ELSE s

\* .replace(/[.,;!?)]+$/, "")
StripTrailingPunct(s) ==
    LET keep == {n \in 0..Len(s) : \A i \in (n + 1)..Len(s) : s[i] \in TrailingPunct}
        n == CHOOSE m \in keep : \A m2 \in keep : m <= m2
    IN  SubSeq(s, 1, n)

\* extractUrl: the first match with its trailing punctuation removed, or
\* <<>> for null
extractUrl(text) ==
    LET starts == {i \in 1..Len(text) : UrlMatchEnd(text, i) > 0}
    IN  IF starts = {} THEN <<>>
        ELSE LET i == CHOOSE m \in starts : \A m2 \in starts : m <= m2
             IN  StripTrailingPunct(SubSeq(text, i, UrlMatchEnd(text, i)))

\* /v[tm]\.tiktok\.com/.test
isShortLink(u) == includes(u, <<"v", "t", ".">> \o Domain) \/ includes(u, <<"v", "m", ".">> \o Domain)
\* /m\.tiktok\.com/.test
isMobileLink(u) == includes(u, <<"m", ".">> \o Domain)
\* /tiktok\.com\/@[\w.-]+\/video\/\d+/.test
isStandardLink(u) ==
    \E i \in 1..Len(u) :
        /\ HasAt(u, i, DomainSlash \o <<"@">>)
        /\ LET b == i + Len(DomainSlash) + 1
               e == RunEnd(u, b, WordChars \cup {".", "-"})
           IN  /\ e >= b
               /\ HasAt(u, e + 1, <<"/", "v", "i", "d", "e", "o", "/">>)
               /\ e + 8 <= Len(u)
               /\ u[e + 8] \in Digits

\* ---- validation messages ----
EmptyMsg(v) == IF v = "slides" THEN "pasteLink" ELSE "Please paste a TikTok link."
WrongDomainMsg(v) == IF v = "slides" THEN "invalidUrl" ELSE "That doesn't look like a valid TikTok link."
NoUrlMsg(v) == IF v = "slides" THEN "invalidUrl" ELSE "Could not find a valid URL in the text."
ProfileMsg == "This looks like a profile link. Please provide a video link."

Invalid(msg) == [isValid |-> FALSE, cleanUrl |-> <<>>, error |-> msg]

\* faulty variant: the domain check is left out
validateUrl_noDomainCheck(v, input) ==
    IF isBlank(input) THEN Invalid(EmptyMsg(v))
    ELSE LET cleanUrl == extractUrl(input)
         IN  IF cleanUrl = <<>> THEN Invalid(NoUrlMsg(v))
             ELSE [isValid |-> TRUE, cleanUrl |-> cleanUrl, error |-> Null]

\* validateUrl of variant v
validateUrl(v, input) ==
    IF isBlank(input) THEN Invalid(EmptyMsg(v))
    ELSE IF ~includes(input, Domain) THEN Invalid(WrongDomainMsg(v))
    ELSE LET cleanUrl == extractUrl(input)
         IN  IF cleanUrl = <<>> THEN Invalid(NoUrlMsg(v))
             ELSE IF /\ v # "slides"
                     /\ ~isShortLink(cleanUrl)
                     /\ ~isMobileLink(cleanUrl)
                     /\ ~isStandardLink(cleanUrl)
                     /\ includes(cleanUrl, <<"/", "@">>)
                     /\ ~includes(cleanUrl, <<"/", "v", "i", "d", "e", "o", "/">>)
                  THEN Invalid(ProfileMsg)
                  ELSE [isValid |-> TRUE, cleanUrl |-> cleanUrl, error |-> Null]

\* ---- history ----

Take(seq, n) == SubSeq(seq, 1, IF Len(seq) < n THEN Len(seq) ELSE n)

\* faulty variant: the list is not cut to the maximum
addToHistory_noSlice(v, prev, item, now) ==
    LET filtered == SelectSeq(prev, LAMBDA h : h.data.id # item.id)
    IN  <<[timestamp |-> now, data |-> item]>> \o filtered

\* faulty variant: the entry with the same id is kept
addToHistory_noFilter(v, prev, item, now) ==
    Take(<<[timestamp |-> now, data |-> item]>> \o prev, HistoryMax(v))

\* faulty variant: the list is cut at its front, behind the new entry
addToHistory_cutsFront(v, prev, item, now) ==
    LET filtered == SelectSeq(prev, LAMBDA h : h.data.id # item.id)
        keep == IF Len(filtered) < HistoryMax(v) THEN Len(filtered) ELSE HistoryMax(v) - 1
    IN  <<[timestamp |-> now, data |-> item]>>
            \o SubSeq(filtered, Len(filtered) - keep + 1, Len(filtered))

\* The updater addToHistory passes to setHistory, applied to prev.
addToHistory(v, prev, item, now) ==
    LET filtered == SelectSeq(prev, LAMBDA h : h.data.id # item.id)
    IN  Take(<<[timestamp |-> now, data |-> item]>> \o filtered, HistoryMax(v))

\* localStorage holds strings: an entry is absent or a text.  The JSON text
\* of a history list is kept as the sequence of its items' field values.
Absent == [present |-> FALSE, text |-> <<>>]

\* faulty variant: the items are written in reverse order
JSONstringify_reversed(h) ==
    [present |-> TRUE,
     text |-> [i \in 1..Len(h) |->
                 <<h[Len(h) + 1 - i].timestamp, h[Len(h) + 1 - i].data.id,
                   h[Len(h) + 1 - i].data.images>>]]

JSONstringify(h) ==
    [present |-> TRUE,
     text |-> [i \in 1..Len(h) |-> <<h[i].timestamp, h[i].data.id, h[i].data.images>>]]

JSONparse(e) ==
    [i \in 1..Len(e.text) |->
        [timestamp |-> e.text[i][1],
         data |-> [id |-> e.text[i][2], images |-> e.text[i][3]]]]

\* the lazy initializer of the history state
loadHistory(e) == IF e.present THEN JSONparse(e) ELSE <<>>

\* the effect on [history]: localStorage.setItem("tiksave-history", ...)
persistHistory ==
    /\ historyEffect
    /\ stored' = JSONstringify(history)
    /\ historyEffect' = FALSE
    /\ UNCHANGED <<variant, result, error, toast, dlVars, batchVars, themeVars, names,
                   url, isLoading,
                   history, lastHistoryOp, clock, lookups, calls, submitted,
                   downloadCount, storedCount, autoDownload, timers>>

\* the CLEAR button: setHistory([]); localStorage.removeItem('tiksave-history').
\* The first two variants render it only next to a non-empty list.
clearHistory ==
    /\ variant = "slides" \/ Len(history) > 0
    /\ history' = <<>>
    /\ stored' = Absent
    /\ historyEffect' = TRUE
    /\ lastHistoryOp' = "clear"
    /\ UNCHANGED <<variant, result, error, toast, dlVars, batchVars, themeVars, names,
                   url, isLoading,
                   clock, lookups, calls, submitted, downloadCount, storedCount,
                   autoDownload, timers>>

\* ---- the theme ----

\* localStorage.getItem("tiksave-theme") when the key is absent
NoTheme == "none"

\* faulty variant: the stored value is not looked at
initTheme_ignoresStored(saved, dark) == IF dark THEN "dark" ELSE "light"

\* the lazy initializer of the theme state
initTheme(saved, dark) ==
    IF saved # NoTheme THEN saved
    ELSE IF dark THEN "dark" ELSE "light"

\* the settings switch: setTheme(t => t === 'light' ? 'dark' : 'light').
\* The layout effect of the render before has run by the time an event
\* handler can.
toggleTheme ==
    /\ ~themeEffect
    /\ toggles < MaxToggles
    /\ toggles' = toggles + 1
    /\ theme' = IF theme = "light" THEN "dark" ELSE "light"
    /\ themeEffect' = TRUE
    /\ UNCHANGED <<variant, result, error, toast, dlVars, appVars, batchVars,
                   storedTheme, systemDark, names>>

\* the layout effect on [theme]: localStorage.setItem("tiksave-theme", theme)
persistTheme ==
    /\ themeEffect
    /\ storedTheme' = theme
    /\ themeEffect' = FALSE
    /\ UNCHANGED <<variant, result, error, toast, dlVars, appVars, batchVars,
                   theme, systemDark, toggles, names>>

\* ---- filenames ----

Letters == WordChars \ (Digits \cup {"_"})

\* .replace(/[^a-z0-9]/gi, '_')
sanitize(t) == [i \in 1..Len(t) |-> IF t[i] \in Letters \cup Digits THEN t[i] ELSE "_"]

\* the argument of .substring(0, n) on the sanitized title
TitleCap(v) == IF v = "slides" THEN 30 ELSE 50

\* (result.title || 'video').replace(...).substring(0, n)
cleanTitle(v, title) ==
    Take(sanitize(IF title = <<>> THEN <<"v", "i", "d", "e", "o">> ELSE title),
         TitleCap(v))

\* the extension of the media kind
extOf(v, type) ==
    CASE type = "video" -> <<"m", "p", "4">>
      [] type = "image" /\ v = "slides" -> <<"j", "p", "g">>
      [] type = "audio" /\ v = "slides" -> <<"m", "p", "3">>
      [] OTHER -> IF v = "slides" THEN <<"m", "p", "4">> ELSE <<"m", "p", "3">>

\* faulty variant: the id is left out of the name
filename_noId(v, id, title, label, type) ==
    <<"t", "i", "k", "s", "a", "v", "e", "_">> \o cleanTitle(v, title)
        \o <<"_">> \o label \o <<".">> \o extOf(v, type)

\* the filename handleDownload derives: `tiksave_${id}_${cleanTitle}_${label}.${ext}`
\* in part_000, `tiksave-${id}.${ext}` in src/index.tsx and part_001
filename(v, id, title, label, type) ==
    IF v \in {"v1", "slides"}
    THEN <<"t", "i", "k", "s", "a", "v", "e", "_">> \o id \o <<"_">>
            \o cleanTitle(v, title) \o <<"_">> \o label \o <<".">> \o extOf(v, type)
    ELSE <<"t", "i", "k", "s", "a", "v", "e", "-">> \o id \o <<".">> \o extOf(v, type)

\* handleDownload's derivation of the filename for a displayed record
deriveFilename(id, title, label, type) ==
    /\ Len(names) < MaxNames
    /\ names' = Append(names, [id |-> id, title |-> title, label |-> label,
                               type |-> type,
                               name |-> filename(variant, id, title, label, type)])
    /\ UNCHANGED <<variant, result, error, toast, dlVars, appVars, batchVars,
                   themeVars>>

\* ---- the metadata lookup ----

PrivateErrorMsg(v) == IF v = "slides" THEN "privateError" ELSE "This video appears to be private or deleted."
RegionErrorMsg == "Could not process this video. It might be region-restricted."
NetworkErrorMsg(v) == IF v = "slides" THEN "networkError" ELSE "Network error. Please check your connection."
DefaultFailMsg(v) == IF v = "slides" THEN "Failed" ELSE "Failed to fetch video."
LookupOkToast == "loading OK!"

\* provider messages of a non-zero code ("" when the msg field is missing)
ProviderMsgs == {"This video is private", "Url parsing is failed", ""}
\* msg.toLowerCase().includes("private")
mentionsPrivate(m) == m = "This video is private"
\* msg.includes("parsing")
mentionsParsing(m) == m = "Url parsing is failed"

\* the message the else branch of handleProcess shows for provider message m
failureMessage(v, m) ==
    LET msg == IF m = "" THEN DefaultFailMsg(v) ELSE m
    IN  IF mentionsPrivate(msg) THEN PrivateErrorMsg(v)
        ELSE IF v # "slides" /\ mentionsParsing(msg) THEN RegionErrorMsg
        ELSE msg

\* the post behind id is a slideshow (the response carries an images list)
isSlideshowPost(id) == id % 2 = 0

\* the VideoData record handleProcess builds from a code-0 response
videoData(v, id) == [id |-> id, images |-> (v = "slides" /\ isSlideshowPost(id))]

\* What the continuation of a handleProcess call can read of the `result`
\* its closure captured: the timer callback's handleDownload tests it and
\* names the file by its id in part_000; in src/index.tsx the callback
\* hands the new record over and the captured one is never read.
closureResult(v, auto, r) == IF auto /\ v # "index" THEN r ELSE NoResult

\* handleProcess(inputUrl) up to its await.  The suspended call keeps what
\* its closure captured of the state it reads after the await.
handleProcess(inputUrl) ==
    LET val == validateUrl(variant, inputUrl)
    IN  IF ~val.isValid
        THEN /\ error' = IF variant = "slides" THEN error ELSE val.error
             /\ toast' = IF variant = "slides" THEN val.error ELSE toast
             /\ UNCHANGED <<variant, result, dlVars, appVars, batchVars, themeVars,
                            names>>
        ELSE /\ calls < MaxLookups
             /\ calls' = calls + 1
             /\ submitted' = Append(submitted, val.cleanUrl)
             /\ error' = IF variant = "slides" THEN error ELSE Null
             /\ url' = val.cleanUrl
             /\ isLoading' = TRUE
             /\ lookups' = Append(lookups, [call |-> calls + 1,
                                            downloadCount |-> downloadCount,
                                            autoDownload |-> autoDownload,
                                            result |-> closureResult(variant, autoDownload, result)])
             /\ UNCHANGED <<variant, result, toast, dlVars, batchVars, themeVars,
                            names, history, stored,
                            historyEffect, lastHistoryOp, clock, downloadCount,
                            storedCount, autoDownload, timers>>

\* the input field's onChange: setUrl(e.target.value)
typeUrl(text) ==
    /\ url # text
    /\ url' = text
    /\ UNCHANGED <<variant, result, error, toast, dlVars, batchVars, themeVars,
                   names, isLoading, history,
                   stored, historyEffect, lastHistoryOp, clock, lookups, calls,
                   submitted,
                   downloadCount, storedCount, autoDownload, timers>>

Remove(seq, i) == SubSeq(seq, 1, i - 1) \o SubSeq(seq, i + 1, Len(seq))

\* faulty variant: the images list is not looked at
autoTriggers_anyRecord(auto, item) == auto

\* the test that arms the auto-download timer: `autoDownload &&
\* !videoData.images` in the slideshow App, `autoDownload` in the two Apps
\* whose records carry no images list
autoTriggers(auto, item) == auto /\ ~item.images

\* The download actions renderDownload offers for the displayed record r
\* when all its URLs are populated: the slideshow App renders the batch
\* button in place of the video buttons when r.images is set.
downloadView(v, r) ==
    IF r = NoResult THEN {}
    ELSE IF v = "index" THEN {"video", "audio"}
    ELSE IF v = "slides" /\ r.images THEN {"batch", "audio"}
    ELSE {"video", "hdVideo", "audio"}

\* the code-0 branch of handleProcess for the suspended call c
lookupSucceeds(c, id, now) ==
    LET item == videoData(variant, id)
        newCount == c.downloadCount + 1
    IN  /\ result' = item
        /\ history' = addToHistory(variant, history, item, now)
        /\ historyEffect' = TRUE
        /\ lastHistoryOp' = "add"
        /\ toast' = IF variant = "slides" THEN LookupOkToast ELSE toast
        /\ downloadCount' = IF variant = "slides" THEN newCount ELSE downloadCount
        /\ storedCount' = IF variant = "slides" THEN newCount ELSE storedCount
        /\ timers' = IF autoTriggers(c.autoDownload, item)
                     THEN Append(timers, [id |-> id, closure |-> c.result])
                     ELSE timers
        /\ UNCHANGED <<error, stored>>

\* faulty variant: the failure path clears the displayed result
lookupFails_clearsResult(msg) ==
    /\ error' = IF variant = "slides" THEN error ELSE msg
    /\ toast' = IF variant = "slides" THEN msg ELSE toast
    /\ result' = NoResult
    /\ UNCHANGED <<history, historyEffect, lastHistoryOp, downloadCount,
                   storedCount, timers, stored>>

\* the else branch and the catch block of handleProcess
lookupFails(msg) ==
    /\ error' = IF variant = "slides" THEN error ELSE msg
    /\ toast' = IF variant = "slides" THEN msg ELSE toast
    /\ UNCHANGED <<result, history, historyEffect, lastHistoryOp, downloadCount,
                   storedCount, timers, stored>>

\* what the lookup request of a call can come to
Responses(v) ==
    [kind : {"reject", "malformed"}, id : {0}, msg : {""}] \cup
    [kind : {"code0"}, id : LookupIds(v), msg : {""}] \cup
    [kind : {"error"}, id : {0}, msg : ProviderMsgs]

\* The continuation of the i-th suspended handleProcess call when its lookup
\* settles with response r: the try body after the await, the catch block
\* and the finally block.
lookupSettles(i, r) ==
    /\ i \in 1..Len(lookups)
    /\ lookups' = Remove(lookups, i)
    /\ isLoading' = FALSE
    /\ IF r.kind = "code0"
       THEN /\ clock' = clock + 1
            /\ lookupSucceeds(lookups[i], r.id, clock)
       ELSE /\ clock' = clock
            /\ lookupFails(IF r.kind = "error"
                           THEN failureMessage(variant, r.msg)
                           ELSE NetworkErrorMsg(variant))
    /\ UNCHANGED <<variant, dlVars, batchVars, themeVars, names, url, calls,
                   submitted,
                   autoDownload>>

\* ---- auto-download ----

\* The record whose id handleDownload puts into the filename when the timer
\* callback armed by handleProcess calls it: src/index.tsx is handed the new
\* record (dataOverride); part_000 reads the `result` of the render in which
\* handleProcess was called, which the callback's closure captured.
namedRecord(v, timer) ==
    IF v = "index" THEN videoData(v, timer.id) ELSE timer.closure

\* The 500 ms timer armed by handleProcess fires and its callback calls
\* handleDownload, up to the first await.  Timers of equal delay fire in the
\* order they were armed.  The callback does not look at isDownloading.
\* In part_000 the call returns at once when the captured result is null.
autoDownloadFires ==
    /\ timers # <<>>
    /\ timers' = Tail(timers)
    /\ LET target == namedRecord(variant, Head(timers))
       IN  IF target = NoResult
           THEN UNCHANGED <<isDownloading, error, autoCalls>>
           ELSE /\ isDownloading' = TRUE
                /\ error' = IF variant = "slides" THEN error ELSE Null
                /\ autoCalls' = Append(autoCalls,
                                       [id |-> Head(timers).id,
                                        nameId |-> target.id,
                                        idx |-> 1,
                                        blob |-> freshBlob,
                                        saved |-> FALSE])
    /\ UNCHANGED <<variant, result, toast, dlPc, dlIdx, blob, dlReqs, dlInflight,
                   dlPlan, dlSaved, downloads, objUrls, batchVars, themeVars,
                   names, url, isLoading, history, stored, historyEffect,
                   lastHistoryOp, clock, lookups, calls, submitted, downloadCount,
                   storedCount, autoDownload>>

\* The continuation of the j-th timer-started handleDownload call when the
\* request it awaits comes to o: the rest of the chain step, then the next
\* strategy's request or the code after the chain and the finally block.
autoStrategySettles(j, o) ==
    LET c == autoCalls[j]
        k == c.idx
        r == strategyResult(variant, k, o)
        b == keptBlob(variant, c.blob, r)
        stopped == loopStops(variant, r)
        last == k = Len(strategies(variant))
    IN  /\ j \in 1..Len(autoCalls)
        /\ k > 0
        /\ IF stopped \/ last
           THEN /\ isDownloading' = FALSE
                /\ IF materializes(variant, b, stopped)
                   THEN /\ autoCalls' = [autoCalls EXCEPT ![j] =
                                            [@ EXCEPT !.idx = 0, !.blob = b,
                                                      !.saved = TRUE]]
                        /\ objUrls' = Append(objUrls, objectUrl(variant, "file"))
                        /\ error' = error
                        /\ toast' = IF variant = "slides"
                                     THEN DownloadStartedToast
                                     ELSE toast
                   ELSE /\ autoCalls' = [autoCalls EXCEPT ![j] =
                                            [@ EXCEPT !.idx = 0, !.blob = b]]
                        /\ objUrls' = objUrls
                        /\ error' = IF variant = "slides"
                                     THEN error
                                     ELSE downloadFailedMsg(variant)
                        /\ toast' = IF variant = "slides"
                                     THEN DownloadFailedToast
                                     ELSE toast
           ELSE /\ autoCalls' = [autoCalls EXCEPT ![j] =
                                    [@ EXCEPT !.idx = nextIndex(k), !.blob = b]]
                /\ UNCHANGED <<isDownloading, error, toast, objUrls>>
        /\ UNCHANGED <<variant, result, dlPc, dlIdx, blob, dlReqs, dlInflight,
                       dlPlan, dlSaved, downloads, appVars, batchVars,
                       themeVars, names>>

\* ---- the initial state: what the lazy state initializers read ----

Variants == {"index", "v1", "slides"}

\* a stored history of n items, newest first
storedList(v, n) ==
    [i \in 1..n |-> [timestamp |-> n + 1 - i, data |-> videoData(v, i)]]

\* The lengths of the lists the history key can hold at start-up.  The two
\* variants that keep 10 items share the key with the variant that keeps 50,
\* so they can find a list longer than their own maximum.
StoredLens(v) ==
    {HistoryMax(v)} \cup (IF v = "slides" THEN {} ELSE {HistoryMax(v) + 1})

StoredHistories(v) == {Absent} \cup {JSONstringify(storedList(v, n)) : n \in StoredLens(v)}

\* localStorage entry "tiksave-download-count": -1 when absent
StoredCounts(v) == IF v = "slides" THEN {-1, 1} ELSE {-1}

AppInit ==
    /\ url = <<>>
    /\ isLoading = FALSE
    /\ result = NoResult
    /\ error = Null
    /\ toast = Null
    /\ stored \in StoredHistories(variant)
    /\ history = loadHistory(stored)
    /\ historyEffect = TRUE
    /\ lastHistoryOp = "none"
    /\ clock = Len(history) + 1
    /\ lookups = <<>>
    /\ calls = 0
    /\ submitted = <<>>
    /\ storedCount \in StoredCounts(variant)
    /\ downloadCount = IF storedCount = -1 THEN 0 ELSE storedCount
    /\ autoDownload \in BOOLEAN
    /\ timers = <<>>

DownloadIdle ==
    /\ isDownloading = FALSE
    /\ dlPc = "idle"
    /\ dlIdx = 0
    /\ blob = NoBlob
    /\ dlReqs = <<>>
    /\ dlInflight = {}
    /\ dlPlan = <<>>
    /\ dlSaved = <<>>
    /\ downloads = 0
    /\ objUrls = <<>>
    /\ autoCalls = <<>>

BatchIdle ==
    /\ batchPc = "idle"
    /\ imgIdx = <<>>
    /\ imgOuts = <<>>
    /\ zip = {}

\* the theme of a visit that found "light" stored and has written it back
ThemeSettled ==
    /\ theme = "light"
    /\ storedTheme = "light"
    /\ themeEffect = FALSE
    /\ systemDark = FALSE
    /\ toggles = 0

\* a visit with auto-download off, its default
Init ==
    /\ variant \in Variants
    /\ AppInit
    /\ ~autoDownload
    /\ DownloadIdle
    /\ BatchIdle
    /\ ThemeSettled
    /\ names = <<>>

\* texts typed into the input field
SampleTexts ==
    {<<>>,
     <<"l", "o", "l">>,
     <<"s", "e", "e", " ", "h", "t", "t", "p", "s", ":", "/", "/", "v", "t", ".", "t", "i", "k", "t", "o", "k", ".", "c", "o", "m", "/", "Z", "S", "a", "b", "c", "1", "2", "3", "/", " ", "l", "o", "l">>}

Next ==
    \/ \E t \in SampleTexts : typeUrl(t)
    \/ handleProcess(url)
    \/ \E i \in 1..Len(lookups) : \E r \in Responses(variant) : lookupSettles(i, r)
    \/ persistHistory
    \/ clearHistory

Spec == Init /\ [][Next]_vars

\* ---- resolutions with auto-download, and clicks on the download button ----

\* the link typed into the input field
AutoLink == <<"h", "t", "t", "p", "s", ":", "/", "/", "v", "t", ".", "t", "i", "k", "t", "o", "k", ".", "c", "o", "m", "/", "Z", "S", "1", "/">>

\* what a lookup comes to: a rejected request, a private post, or one of
\* two records (in the slideshow variant a video and a slideshow)
AutoResponses(v) ==
    {r \in Responses(v) :
        \/ r.kind = "reject"
        \/ r.msg = "This video is private"
        \/ r.kind = "code0" /\ r.id \in {1, HistoryMax(v)}}

\* what a request of the chain comes to: rejected, or a successful response
\* with a body
AutoOutcomes ==
    {[kind |-> "reject", ok |-> FALSE, size |-> 0],
     [kind |-> "response", ok |-> TRUE, size |-> 1]}

\* every request fails, or every request succeeds
AutoPlans(v) == {[k \in 1..Len(strategies(v)) |-> o] : o \in AutoOutcomes}

\* a first visit: nothing stored but the auto-download setting
InitAuto ==
    /\ variant \in Variants
    /\ AppInit
    /\ stored = Absent
    /\ storedCount = -1
    /\ DownloadIdle
    /\ BatchIdle
    /\ ThemeSettled
    /\ names = <<>>

NextAuto ==
    \/ typeUrl(AutoLink)
    \/ handleProcess(url)
    \/ \E i \in 1..Len(lookups) : \E r \in AutoResponses(variant) : lookupSettles(i, r)
    \/ autoDownloadFires
    \/ \E j \in 1..Len(autoCalls) : \E o \in AutoOutcomes : autoStrategySettles(j, o)
    \/ /\ "video" \in downloadView(variant, result)
       /\ startDownload("playUrl", MaxDownloads, AutoPlans(variant))
    \/ strategySettles

SpecAuto == InitAuto /\ [][NextAuto]_vars

\* ---- resolutions of two links, submitted while lookups are pending ----

OtherLink == <<"h", "t", "t", "p", "s", ":", "/", "/", "v", "t", ".", "t", "i", "k", "t", "o", "k", ".", "c", "o", "m", "/", "Z", "S", "2", "/">>

\* the id of the post behind a link
postOf(v, link) == IF link = AutoLink THEN 1 ELSE HistoryMax(v)

\* what the lookup of a link comes to: a rejected request, or the record
\* of the post behind the link
RaceResponses(v, link) ==
    {r \in Responses(v) :
        r.kind = "reject" \/ (r.kind = "code0" /\ r.id = postOf(v, link))}

NextRace ==
    \/ \E t \in {AutoLink, OtherLink} : typeUrl(t)
    \/ handleProcess(url)
    \/ \E i \in 1..Len(lookups) :
          \E r \in RaceResponses(variant, submitted[lookups[i].call]) :
              lookupSettles(i, r)
    \/ persistHistory

\* a first visit: nothing stored yet
InitRace ==
    /\ Init
    /\ stored = Absent
    /\ storedCount = -1

SpecRace == InitRace /\ [][NextRace]_vars

\* ---- downloads of a displayed record ----

DownloadVariants == {"index", "v1", "slides", "part1"}

InitDownload ==
    /\ variant \in DownloadVariants
    /\ url = <<>>
    /\ isLoading = FALSE
    /\ result = videoData(variant, 1)
    /\ error = Null
    /\ toast = Null
    /\ stored = JSONstringify(storedList(variant, 2))
    /\ history = loadHistory(stored)
    /\ historyEffect = FALSE
    /\ lastHistoryOp = "add"
    /\ clock = 3
    /\ lookups = <<>>
    /\ calls = 1
    /\ submitted = <<AutoLink>>
    /\ storedCount = IF variant = "slides" THEN 1 ELSE -1
    /\ downloadCount = IF variant = "slides" THEN 1 ELSE 0
    /\ autoDownload = FALSE
    /\ timers = <<>>
    /\ DownloadIdle
    /\ BatchIdle
    /\ ThemeSettled
    /\ names = <<>>

NextDownload ==
    \/ \E f \in {"", "playUrl"} : handleDownload(f)
    \/ strategySettles
    \/ \E i \in 1..Len(objUrls) : revokeTimerFires(i)

SpecDownload == InitDownload /\ [][NextDownload]_vars

\* ---- the theme switch ----

StoredThemes == {NoTheme, "light", "dark"}

\* a first render: nothing else stored, the theme read by its initializer
InitTheme ==
    /\ variant \in Variants
    /\ AppInit
    /\ stored = Absent
    /\ storedCount = -1
    /\ ~autoDownload
    /\ DownloadIdle
    /\ BatchIdle
    /\ names = <<>>
    /\ storedTheme \in StoredThemes
    /\ systemDark \in BOOLEAN
    /\ theme = initTheme(storedTheme, systemDark)
    /\ themeEffect = TRUE
    /\ toggles = 0

NextTheme ==
    \/ toggleTheme
    \/ persistTheme

SpecTheme == InitTheme /\ [][NextTheme]_vars

\* ---- the names of the saved files ----

\* ids of the lookup service
SampleIds == {<<"7">>, <<"7", "1">>, <<"7", "_", "1">>}

\* titles: none, one with characters the sanitizer replaces, one longer than
\* both caps
SampleTitles ==
    {<<>>,
     <<"1", " ", "A", "b", "!">>,
     [i \in 1..51 |-> IF i = 51 THEN "z" ELSE "a"]}

SampleLabels == {<<"7", "2", "0", "p">>, <<"a", "u", "d", "i", "o">>}

MediaTypes == {"video", "audio"}

InitNames ==
    /\ InitDownload
    /\ names = <<>>

NextNames ==
    \E id \in SampleIds : \E title \in SampleTitles :
        \E label \in SampleLabels : \E type \in MediaTypes :
            deriveFilename(id, title, label, type)

SpecNames == InitNames /\ [][NextNames]_vars

\* ---- repeated downloads of the same file ----

MaxRepeats == 2

\* what a request comes to in the repeated calls: rejected, refused with an
\* error body, answered with an empty body, answered with the file
RepeatOutcomes ==
    {[kind |-> "reject", ok |-> FALSE, size |-> 0],
     [kind |-> "response", ok |-> FALSE, size |-> 1],
     [kind |-> "response", ok |-> TRUE, size |-> 0],
     [kind |-> "response", ok |-> TRUE, size |-> 1]}

RepeatPlans(v) == [1..Len(strategies(v)) -> RepeatOutcomes]

NextRepeat ==
    \/ startDownload("playUrl", MaxRepeats, RepeatPlans(variant))
    \/ strategySettles
    \/ \E i \in 1..Len(objUrls) : revokeTimerFires(i)

SpecRepeat == InitDownload /\ [][NextRepeat]_vars

\* ---- the archive of a displayed slideshow ----

\* a slideshow post has been looked up (its id is even)
InitBatch ==
    /\ variant = "slides"
    /\ url = <<>>
    /\ isLoading = FALSE
    /\ result = videoData(variant, 2)
    /\ error = Null
    /\ toast = LookupOkToast
    /\ stored = JSONstringify(storedList(variant, 2))
    /\ history = loadHistory(stored)
    /\ historyEffect = FALSE
    /\ lastHistoryOp = "add"
    /\ clock = 3
    /\ lookups = <<>>
    /\ calls = 1
    /\ submitted = <<AutoLink>>
    /\ storedCount = 1
    /\ downloadCount = 1
    /\ autoDownload = FALSE
    /\ timers = <<>>
    /\ DownloadIdle
    /\ BatchIdle
    /\ ThemeSettled
    /\ names = <<>>

NextBatch ==
    \/ handleBatchDownload
    \/ \E i \in DOMAIN imgIdx : \E o \in Outcomes : imageSettles(i, o)
    \/ batchFinishes

SpecBatch == InitBatch /\ [][NextBatch]_vars

\* ---- validation of typed texts ----

MaxParts == 2

Fragments ==
    {<<" ">>,
     <<"l", "o", "l">>,
     <<".">>,
     <<"t", "i", "k", "t", "o", "k", ".", "c", "o", "m">>,
     <<"h", "t", "t", "p", "s", ":", "/", "/", "v", "t", ".", "t", "i", "k", "t", "o", "k", ".", "c", "o", "m", "/", "Z", "S", "1", "/">>,
     <<"h", "t", "t", "p", "s", ":", "/", "/", "w", "w", "w", ".", "t", "i", "k", "t", "o", "k", ".", "c", "o", "m", "/", "@", "u">>}

\* the texts made of at most n fragments
RECURSIVE Concats(_)
Concats(n) ==
    IF n = 0 THEN {<<>>}
    ELSE LET prev == Concats(n - 1)
         IN  prev \cup {p \o f : p \in prev, f \in Fragments}

Texts == Concats(MaxParts)

NextValidate ==
    \/ \E t \in Texts : typeUrl(t)
    \/ handleProcess(url)

\* a first visit: nothing stored yet
InitValidate ==
    /\ Init
    /\ stored = Absent
    /\ storedCount = -1
    /\ ~autoDownload

SpecValidate == InitValidate /\ [][NextValidate]_vars

\* ---- links inside prose ----

\* platform URLs that end in no punctuation; rejected: the non-slideshow
\* validators take the URL as a profile link
SampleUrls ==
    {[url |-> <<"h", "t", "t", "p", "s", ":", "/", "/", "v", "t", ".", "t", "i", "k", "t", "o", "k", ".", "c", "o", "m", "/", "Z", "S", "1", "/">>,
      profile |-> FALSE],
     [url |-> <<"h", "t", "t", "p", ":", "/", "/", "t", "i", "k", "t", "o", "k", ".", "c", "o", "m", "/", "@", "u", ".", "v", "/", "v", "i", "d", "e", "o", "/", "1", "?", "a", "=", "b">>,
      profile |-> FALSE],
     [url |-> <<"h", "t", "t", "p", "s", ":", "/", "/", "m", ".", "t", "i", "k", "t", "o", "k", ".", "c", "o", "m", "/", "@", "u">>,
      profile |-> FALSE],
     [url |-> <<"h", "t", "t", "p", "s", ":", "/", "/", "w", "w", "w", ".", "t", "i", "k", "t", "o", "k", ".", "c", "o", "m", "/", "@", "u">>,
      profile |-> TRUE]}

\* what follows the URL before the next whitespace
SamplePunct == {<<>>, <<".">>, <<")", "!">>, <<"?", ",", ";">>}

ProseBefore == {<<>>, <<"l", "o", "l", " ">>, <<"(", "s", "e", "e", "\n">>}
ProseAfter == {<<>>, <<" ", "l", "o", "l">>, <<"\t", "o", "k", ".">>}

\* the texts with a URL inside prose, each with the URL it was built around
Embedded ==
    {[text |-> b \o u.url \o p \o a, url |-> u.url, profile |-> u.profile] :
        <<b, u, p, a>> \in
            {q \in ProseBefore \X SampleUrls \X SamplePunct \X ProseAfter :
                q[1] \o q[3] \o q[4] # <<>>}}

NextExtract ==
    \/ \E e \in Embedded : typeUrl(e.text)
    \/ handleProcess(url)

SpecExtract == InitValidate /\ [][NextExtract]_vars

\* ======================= properties =======================

\* A strategy fails by raising an error, by a non-successful HTTP response or
\* by yielding a zero-length body.
Failing(o) == o.kind = "reject" \/ ~o.ok \/ o.size = 0

\* C1: in the five-strategy handler, when every strategy fails the
\* acquisition ends as exhausted: nothing is materialized and the
\* download-failed message is set; and no zero-length blob is ever
\* materialized.
C1_ExhaustedNeverMaterializes ==
    (variant = "v1" /\ dlPc = "done") =>
        /\ (\A k \in DOMAIN dlPlan : Failing(dlPlan[k])) =>
               (dlSaved = <<>> /\ error = DownloadFailedMsg)
        /\ \A i \in 1..Len(dlSaved) : dlSaved[i].size > 0

\* C2: in the five-strategy loop and in fetchBlob, when strategies 1..k-1
\* fail and strategy k yields a non-empty blob, exactly strategy k's blob is
\* materialized and no strategy after k is invoked.
C2_FirstSuccessReturned ==
    (variant \in {"v1", "slides"} /\ dlPc = "done") =>
        \A k \in DOMAIN dlPlan :
            (~Failing(dlPlan[k]) /\ \A j \in 1..(k - 1) : Failing(dlPlan[j])) =>
                /\ dlSaved = <<[src |-> k, size |-> dlPlan[k].size, ok |-> TRUE]>>
                /\ Len(dlReqs) = k

FiveStrategyOrder == <<"corsproxy", "codetabs", "thingproxy", "allorigins", "direct">>

\* C3: the five-strategy handler issues its requests in the order proxy A,
\* B, C, D, direct; the request of strategy n is issued only after the
\* requests of strategies 1..n-1 have completed and failed.
C3_FixedOrder ==
    variant = "v1" =>
        \A n \in 1..Len(dlReqs) :
            /\ n <= Len(FiveStrategyOrder)
            /\ dlReqs[n] = FiveStrategyOrder[n]
            /\ \A j \in 1..(n - 1) : j \notin dlInflight /\ Failing(dlPlan[j])

C3_Witness ==
    /\ variant = "v1"
    /\ dlPc = "await"
    /\ Len(dlReqs) = 5
    /\ dlReqs[5] = "direct"
    /\ dlInflight = {5}

\* C4: within one acquisition call (five-strategy loop, fetchBlob) no
\* strategy is invoked twice, at most one request is in flight, a strategy starts only after the one before it has
\* completed with failure, and a call whose strategies all fail has invoked
\* each strategy exactly once.
C4_OnceAndSequential ==
    variant \in {"v1", "slides"} =>
        /\ \A m, n \in 1..Len(dlReqs) : m # n => dlReqs[m] # dlReqs[n]
        /\ Cardinality(dlInflight) <= 1
        /\ \A n \in 1..(Len(dlReqs) - 1) :
               n \notin dlInflight /\ Failing(dlPlan[n])
        /\ (dlPc = "done" /\ \A k \in DOMAIN dlPlan : Failing(dlPlan[k]))
               => Len(dlReqs) = Len(strategies(variant))

\* C5: once addToHistory (or the clear button) has set the history, the list
\* never holds more than the variant's maximum: 10 items, 50 in the
\* slideshow variant.
C5_HistoryBounded ==
    lastHistoryOp # "none" =>
        /\ variant \in {"index", "v1"} => Len(history) <= 10
        /\ variant = "slides" => Len(history) <= 50

\* a record new to a list that was full (or over-long) has been added
C5_Witness ==
    /\ variant = "index"
    /\ lastHistoryOp = "add"
    /\ Len(history) = 10
    /\ history[1].data.id > 11
    /\ history[10].data.id = 9

NoDupIds(h) == \A i, j \in 1..Len(h) : i # j => h[i].data.id # h[j].data.id

\* C6: no two history entries ever share an id, and after a record is added
\* (the step on which Date.now() is read) the entry at index 0 is that record
\* and it is the only entry with its id.
C6_DedupMoveToFront ==
    /\ []NoDupIds(history)
    /\ [][clock' # clock =>
            /\ Len(history') >= 1
            /\ history'[1].data = result'
            /\ Cardinality({j \in 1..Len(history') :
                               history'[j].data.id = result'.id}) = 1]_vars

\* the tail entry of a full list has been resolved again and moved to the front
C6_Witness ==
    /\ variant = "index"
    /\ lastHistoryOp = "add"
    /\ Len(history) = 10
    /\ history[1].data.id = 10
    /\ history[2].data.id = 1
    /\ history[10].data.id = 9

\* C7: once the clear button's handler and the effect it triggers have run,
\* the history is empty and the history key is absent from local storage.
C7_ClearRemovesKey ==
    (lastHistoryOp = "clear" /\ ~historyEffect) =>
        (history = <<>> /\ stored = Absent)

\* what handleProcess does on a text it rejects with the wrong-domain error
WrongDomainRejected ==
    /\ IF variant = "slides"
       THEN toast' = WrongDomainMsg(variant)
       ELSE error' = WrongDomainMsg(variant)
    /\ lookups' = lookups
    /\ calls' = calls
    /\ isLoading' = isLoading
    /\ result' = result
    /\ history' = history

\* C8: on every text without 'tiktok.com', handleProcess reports
\* the wrong-domain error, issues no request and leaves isLoading, result
\* and history alone.
C8_NoDomainIsWrongDomain ==
    [][(~includes(url, Domain) /\ handleProcess(url)) => WrongDomainRejected]_vars

\* C8, non-blank texts: on every text without 'tiktok.com' that is not
\* blank, handleProcess reports the wrong-domain error, issues no request
\* and leaves isLoading, result and history alone.
C8_NonBlankNoDomain ==
    [][(~isBlank(url) /\ ~includes(url, Domain) /\ handleProcess(url))
          => WrongDomainRejected]_vars

\* a text without the domain was rejected while a lookup was pending
C8_Witness ==
    /\ variant = "index"
    /\ ~isBlank(url)
    /\ ~includes(url, Domain)
    /\ error = WrongDomainMsg("index")
    /\ isLoading
    /\ Len(lookups) = 1

FailureMessages(v) ==
    {failureMessage(v, m) : m \in ProviderMsgs} \cup {NetworkErrorMsg(v)}

\* C9: a handleProcess call whose lookup returns a non-zero code, or whose
\* transport fails, creates no history entry: neither its start nor its
\* continuation changes the history or the result, and the continuation
\* sets an error message.
C9_FailedLookupLeavesHistory ==
    [][/\ (calls' # calls /\ handleProcess(url)) =>
              (history' = history /\ result' = result)
       /\ Len(lookups') < Len(lookups) =>
              \A i \in 1..Len(lookups) : \A r \in Responses(variant) :
                  (r.kind # "code0" /\ lookupSettles(i, r)) =>
                      /\ history' = history
                      /\ result' = result
                      /\ IF variant = "slides"
                         THEN toast' \in FailureMessages(variant)
                         ELSE error' \in FailureMessages(variant)]_vars

\* a lookup failed as private after an earlier one had succeeded
C9_Witness ==
    /\ variant = "index"
    /\ error = PrivateErrorMsg("index")
    /\ result # NoResult
    /\ lastHistoryOp = "add"
    /\ history[1].data = result
    /\ lookups = <<>>
    /\ calls = 2

\* C10: every successful resolution of the slideshow variant raises
\* downloadCount, in memory and in storage, by exactly one.
C10_NoLostUpdate ==
    [][\A i \in 1..Len(lookups) : \A r \in Responses(variant) :
          (variant = "slides" /\ r.kind = "code0" /\ lookupSettles(i, r)) =>
              /\ downloadCount' = downloadCount + 1
              /\ storedCount' = downloadCount + 1]_vars

\* the acquisition of image i succeeded: the last request made for it came
\* to a successful response with a non-empty body
Acquired(i) ==
    /\ imgOuts[i] # <<>>
    /\ ~Failing(imgOuts[i][Len(imgOuts[i])])

\* C11: whatever images fail, the batch still fetches the others, finalizes
\* and materializes the archive, and the archive holds an entry for exactly
\* the images whose acquisition succeeded.
C11_BatchKeepsSucceeded ==
    /\ batchPc = "await" => \A i \in DOMAIN imgIdx :
           imgIdx[i] = 0 \/ ENABLED (\E o \in Outcomes : imageSettles(i, o))
    /\ (batchPc = "await" /\ \A i \in DOMAIN imgIdx : imgIdx[i] = 0)
           => ENABLED batchFinishes
    /\ batchPc = "done" =>
           /\ \E n \in 1..Len(objUrls) : objUrls[n].path = "zip" /\ objUrls[n].clicked
           /\ {e.image : e \in zip} = {i \in DOMAIN imgOuts : Acquired(i)}

\* the index of the strategy a call with this plan stops on
stopAt(v, plan) ==
    LET S == {k \in DOMAIN plan : loopStops(v, strategyResult(v, k, plan[k]))}
    IN  IF S = {} THEN Len(plan) ELSE CHOOSE k \in S : \A j \in S : k <= j

\* the blobs a call with this plan materializes, as a function of the plan
savedBy(v, plan) ==
    LET n == stopAt(v, plan)
        stopped == loopStops(v, strategyResult(v, n, plan[n]))
        got == {k \in 1..n : strategyResult(v, k, plan[k]) # NoBlob}
        lastGot == CHOOSE k \in got : \A j \in got : j <= k
    IN  IF v \in {"v1", "index"}
        THEN (IF got = {} THEN <<>> ELSE <<strategyResult(v, lastGot, plan[lastGot])>>)
        ELSE (IF stopped THEN <<strategyResult(v, n, plan[n])>> ELSE <<>>)

\* C12: every acquisition call starts at strategy 1 with no blob, runs the
\* strategies in the handler's order, and what it requests, materializes and
\* reports is a function of the outcomes of its own requests, whatever an
\* earlier call did.
C12_SecondCallIndependent ==
    /\ [][downloads' # downloads =>
            /\ dlIdx' = 1
            /\ blob' = NoBlob
            /\ dlSaved' = <<>>
            /\ dlReqs' = <<strategies(variant)[1]>>]_vars
    /\ [](dlPc = "done" =>
            /\ dlReqs = SubSeq(strategies(variant), 1, stopAt(variant, dlPlan))
            /\ dlSaved = savedBy(variant, dlPlan)
            /\ IF variant = "slides"
               THEN toast = IF dlSaved = <<>> THEN DownloadFailedToast
                                              ELSE DownloadStartedToast
               ELSE error = IF dlSaved = <<>> THEN downloadFailedMsg(variant)
                                              ELSE Null)

\* a second call of the five-strategy handler has failed after the first
\* call had saved a file
C12_Witness ==
    /\ variant = "v1"
    /\ downloads = 2
    /\ dlPc = "done"
    /\ dlSaved = <<>>
    /\ Len(objUrls) = 1
    /\ error = DownloadFailedMsg

\* the four proxies answer with a non-successful status and the direct
\* fetch throws
ProxiesRefuseDirectThrows ==
    /\ Len(dlPlan) = 5
    /\ \A k \in 1..4 : dlPlan[k].kind = "response" /\ ~dlPlan[k].ok
    /\ dlPlan[5].kind = "reject"

\* C15: in the five-strategy handler, when the four proxies answer with a
\* non-successful status and the direct fetch throws, no step of the call
\* materializes anything or creates an object URL, and the call ends with
\* every strategy tried once, the download-failed message set and the
\* handler finished (isDownloading reset).
C15_AllRefusedIsSoftFailure ==
    [][(variant = "v1" /\ dlPc = "await" /\ ProxiesRefuseDirectThrows) =>
          /\ dlSaved' = <<>>
          /\ Len(objUrls') = Len(objUrls)
          /\ dlPc' = "done" =>
                 /\ dlReqs' = FiveStrategyOrder
                 /\ error' = DownloadFailedMsg
                 /\ ~isDownloading'
          /\ dlPc' = "await" =>
                 /\ dlReqs' = SubSeq(FiveStrategyOrder, 1, Len(dlReqs'))
                 /\ error' = Null
                 /\ isDownloading']_vars

\* the proxies sent error bodies, the direct fetch threw, the call has ended
C15_Witness ==
    /\ variant = "v1"
    /\ ProxiesRefuseDirectThrows
    /\ \A k \in 1..4 : dlPlan[k].size = 1
    /\ dlPc = "done"
    /\ error = DownloadFailedMsg
    /\ dlSaved = <<>>

\* C18: fetchBlob never hands over the body of a non-successful response:
\* no blob materialized in the slideshow variant comes from a response whose
\* ok flag is false.
C18_NonOkBodyNeverReturned ==
    variant = "slides" => \A n \in 1..Len(dlSaved) : dlSaved[n].ok

\* the proxy strategies of a handler
proxiesOf(v) == {k \in 1..Len(strategies(v)) : strategies(v)[k] # "direct"}

\* C19: in the handlers of src/index.tsx and part_001 the direct fetch is
\* requested only after every proxy strategy of the handler has been
\* requested and has failed.
C19_DirectAfterProxies ==
    variant \in {"index", "part1"} =>
        \A n \in 1..Len(dlReqs) :
            dlReqs[n] = "direct" =>
                \A k \in proxiesOf(variant) :
                    /\ \E m \in 1..(n - 1) : dlReqs[m] = strategies(variant)[k]
                    /\ Failing(dlPlan[k])

\* C20: every object URL created for a download is revoked only after its
\* anchor was clicked, and is released: it has been revoked or the timer that
\* revokes it is armed.
C20_EveryUrlReleased ==
    \A n \in 1..Len(objUrls) :
        /\ objUrls[n].revoked => objUrls[n].clicked
        /\ objUrls[n].revoked \/ objUrls[n].timer

\* C16: once the effect on [history] has run, the text stored under the
\* history key parses to exactly the in-memory history, entry by entry in the
\* same order, so that the lazy initializer of a reload yields the same list.
C16_StoredHistoryRoundTrips ==
    ~historyEffect => (stored.present /\ loadHistory(stored) = history)

\* a record was added to a stored list and the effect has written the list
C16_Witness ==
    /\ lastHistoryOp = "add"
    /\ ~historyEffect
    /\ Len(history) >= 2
    /\ history[1].data = result
    /\ history[1].timestamp > history[2].timestamp
    /\ loadHistory(stored) = history

\* C17: the first render takes the theme from the stored value when there
\* is one and from the system preference otherwise; and once the effect on
\* [theme] has run, the stored theme is the in-memory theme, which is what a
\* reload starts with whatever the system preference.
C17_ThemePersists ==
    /\ (toggles = 0 /\ themeEffect) =>
           /\ storedTheme # NoTheme => theme = storedTheme
           /\ storedTheme = NoTheme => theme = (IF systemDark THEN "dark" ELSE "light")
    /\ ~themeEffect =>
           /\ storedTheme = theme
           /\ \A dark \in BOOLEAN : initTheme(storedTheme, dark) = theme

\* a visitor whose system is light switched to dark and back to light, then
\* to dark again, and the effect has stored it
C17_Witness ==
    /\ toggles = 3
    /\ ~themeEffect
    /\ ~systemDark
    /\ theme = "dark"
    /\ storedTheme = "dark"

\* C14: two derivations from records with the same title, label and media
\* kind and different ids give different filenames, and two derivations
\* from the same id, title, label and kind give the same filename.
C14_FilenamesDistinctById ==
    \A m, n \in 1..Len(names) :
        /\ (/\ names[m].title = names[n].title
            /\ names[m].label = names[n].label
            /\ names[m].type = names[n].type
            /\ names[m].id # names[n].id) => names[m].name # names[n].name
        /\ (/\ names[m].title = names[n].title
            /\ names[m].label = names[n].label
            /\ names[m].type = names[n].type
            /\ names[m].id = names[n].id) => names[m].name = names[n].name

\* two records whose title is cut and sanitized to the same fragment, with
\* ids one of which extends the other, were given different names
C14_Witness ==
    /\ variant = "slides"
    /\ Len(names) = 2
    /\ names[1].id = <<"7">>
    /\ names[2].id = <<"7", "_", "1">>
    /\ names[1].title = names[2].title
    /\ Len(names[1].title) = 51
    /\ names[1].label = names[2].label
    /\ names[1].type = names[2].type
    /\ names[1].name # names[2].name

\* C13 as stated: for every text with a platform URL between prose,
\* validateUrl succeeds and cleanUrl is the URL without the punctuation
\* that followed it.
C13_EveryEmbeddedUrlAccepted ==
    \A e \in Embedded :
        url = e.text =>
            validateUrl(variant, url) =
                [isValid |-> TRUE, cleanUrl |-> e.url, error |-> Null]

\* C13: for every text with a platform URL between prose, validateUrl fails
\* with the profile-link message when the variant is not the slideshow one
\* and the URL is a profile link, and otherwise succeeds with cleanUrl the
\* URL without the characters . , ; ! ? ) that followed it, nothing else
\* added or removed.
C13_EmbeddedUrlExtracted ==
    \A e \in Embedded :
        url = e.text =>
            validateUrl(variant, url) =
                IF variant # "slides" /\ e.profile
                THEN Invalid(ProfileMsg)
                ELSE [isValid |-> TRUE, cleanUrl |-> e.url, error |-> Null]

\* a lookup was started for the URL found inside a text: the field holds
\* the URL alone, with the punctuation inside its path
C13_Witness ==
    /\ isLoading
    /\ calls = 1
    /\ url = <<"h", "t", "t", "p", ":", "/", "/", "t", "i", "k", "t", "o", "k", ".", "c", "o", "m", "/", "@", "u", ".", "v", "/", "v", "i", "d", "e", "o", "/", "1", "?", "a", "=", "b">>

\* C22: when the batch has finished, the entries of the archive are
\* numbered 1 to m, m the number of entries, whichever images failed.
C22_EntriesNumberedWithoutGaps ==
    batchPc = "done" => {e.image : e \in zip} = 1..Cardinality(zip)

\* the archive as a function of what the requests of each image came to
archiveOf(outs) ==
    {[image |-> i,
      blob |-> strategyResult("slides", Len(outs[i]), outs[i][Len(outs[i])])] :
        i \in {j \in DOMAIN outs :
                  /\ outs[j] # <<>>
                  /\ loopStops("slides",
                               strategyResult("slides", Len(outs[j]),
                                              outs[j][Len(outs[j])]))}}

\* C29: at every moment of a batch the archive is the function archiveOf of
\* the outcomes received so far for each image, whatever the order in
\* which they arrived: each entry carries the number of its image and the
\* blob its fetchBlob call stopped on; and the batch is finished only when
\* the fetchBlob call of every image has ended.
C29_ArchiveIndependentOfOrder ==
    /\ [](batchPc # "idle" => zip = archiveOf(imgOuts))
    /\ [][batchPc' = "done" /\ batchPc = "await" =>
             \A i \in DOMAIN imgIdx : imgIdx[i] = 0 /\ imgOuts[i] # <<>>]_vars

\* image 2 was acquired while the first request of image 1 is still pending
C29_Witness ==
    /\ batchPc = "await"
    /\ imgIdx[1] = 1
    /\ imgOuts[1] = <<>>
    /\ imgIdx[2] = 0
    /\ \E e \in zip : e.image = 2 /\ e.blob.ok

\* C30: when the acquisition of every image has failed, the step that ends
\* the batch creates no object URL (no file is materialized) and does not
\* show the download-started message.
C30_EmptyArchiveNotMaterialized ==
    [][(batchPc = "await" /\ batchPc' = "done" /\ zip = {}) =>
          /\ objUrls' = objUrls
          /\ toast' # DownloadStartedToast]_vars

\* the index in list h of the entry with this id (0: none)
indexOf(h, id) ==
    IF \E i \in 1..Len(h) : h[i].data.id = id
    THEN CHOOSE i \in 1..Len(h) : h[i].data.id = id
    ELSE 0

\* C24: on every step that adds a record (the step on which Date.now() is
\* read) the new list is the record followed by the entries of the old
\* list other than the one with the record's id, unchanged and in the order
\* they had, cut at the tail only, and only as far as the maximum (10
\* entries, 50 in the slideshow variant) requires.
C24_AddKeepsOrderDropsTail ==
    [][clock' # clock =>
          LET g == indexOf(history, result'.id)
              others == IF g = 0 THEN Len(history) ELSE Len(history) - 1
              room == IF variant = "slides" THEN 49 ELSE 9
          IN  /\ history'[1].data = result'
              /\ Len(history') = 1 + (IF others < room THEN others ELSE room)
              /\ \A i \in 2..Len(history') :
                    history'[i] = history[IF g = 0 \/ i - 1 < g THEN i - 1 ELSE i]]_vars

\* two records were added to a full list: one new to it, then the one at
\* its tail; two entries were pushed out at the tail
C24_Witness ==
    /\ variant = "v1"
    /\ lastHistoryOp = "add"
    /\ Len(history) = 10
    /\ history[1].data.id = 10
    /\ history[2].data.id = 12
    /\ history[3].data.id = 1
    /\ history[10].data.id = 8

\* C21: in the slideshow variant no auto-download timer is armed and no
\* timer-started download runs for a record that carries an images list,
\* and while such a record is displayed the download view offers the batch
\* download and no video download.
C21_SlideshowNeverAutoDownloaded ==
    variant = "slides" =>
        /\ \A n \in 1..Len(timers) : ~videoData(variant, timers[n].id).images
        /\ \A n \in 1..Len(autoCalls) : ~videoData(variant, autoCalls[n].id).images
        /\ (result # NoResult /\ result.images) =>
               /\ "batch" \in downloadView(variant, result)
               /\ downloadView(variant, result) \cap {"video", "hdVideo"} = {}

\* with auto-download on, a slideshow has been resolved: it is displayed
\* and in the history, no timer is armed and no download has been started
C21_Witness ==
    /\ variant = "slides"
    /\ autoDownload
    /\ result # NoResult /\ result.images
    /\ history # <<>> /\ history[1].data = result
    /\ lookups = <<>>
    /\ calls = 1
    /\ timers = <<>>
    /\ autoCalls = <<>>
    /\ ~isDownloading

\* C25: in part_000, when the timer armed by a successful resolution fires,
\* a handleDownload call is started for the record just resolved and the
\* file it names carries that record's id.
C25_AutoDownloadsResolvedRecord ==
    [][(variant \in {"v1", "slides"} /\ Len(timers') < Len(timers)) =>
          /\ Len(autoCalls') = Len(autoCalls) + 1
          /\ autoCalls'[Len(autoCalls')].id = Head(timers).id
          /\ autoCalls'[Len(autoCalls')].nameId = Head(timers).id
          /\ autoCalls'[Len(autoCalls')].idx = 1]_vars

\* the handleDownload calls in flight: the one started by a click and those
\* started by timers
inFlight ==
    (IF dlPc = "await" THEN 1 ELSE 0)
        + Cardinality({j \in 1..Len(autoCalls) : autoCalls[j].idx > 0})

\* C28: in src/index.tsx at most one handleDownload call is in flight and
\* isDownloading is true exactly while one is.
C28_OneDownloadAtATime ==
    variant = "index" =>
        /\ inFlight <= 1
        /\ isDownloading <=> inFlight = 1

\* C26: in src/index.tsx isLoading is true whenever a lookup started by
\* handleProcess is in flight.
C26_LoadingWhileLookupPending ==
    variant = "index" => (lookups # <<>> => isLoading)

\* C27: in src/index.tsx, once several resolutions have been submitted, all
\* lookups have completed and the one submitted last came back with a
\* record (no lookup has failed since it was submitted: error is null),
\* the displayed result and the record at the front of the history are
\* those of the link submitted last.
C27_LastSubmittedWins ==
    (/\ variant = "index"
     /\ calls >= 2
     /\ lookups = <<>>
     /\ error = Null) =>
        /\ result.id = postOf(variant, submitted[calls])
        /\ history # <<>>
        /\ history[1].data.id = postOf(variant, submitted[calls])

\* C23: in src/index.tsx every handleProcess and handleDownload call can
\* take its next step whatever its request comes to, a handleDownload call
\* makes at most three requests, and the step that ends a call leaves the
\* handler's flag (isLoading, isDownloading) false and, when the call has
\* failed, an error message set.
C23_HandlersEndCleanly ==
    /\ [](variant = "index" =>
            /\ lookups # <<>> =>
                   \A r \in AutoResponses(variant) : ENABLED lookupSettles(1, r)
            /\ dlPc = "await" => (dlIdx \in 1..3 /\ ENABLED strategySettles)
            /\ \A j \in 1..Len(autoCalls) :
                   /\ autoCalls[j].idx \in 0..3
                   /\ autoCalls[j].idx > 0 =>
                          \A o \in AutoOutcomes : ENABLED autoStrategySettles(j, o))
    /\ [][variant = "index" =>
            /\ Len(lookups') < Len(lookups) =>
                   (~isLoading' /\ (clock' = clock => error' # Null))
            /\ (dlPc = "await" /\ dlPc' = "done") =>
                   (~isDownloading' /\ (dlSaved' = <<>> => error' # Null))
            /\ \A j \in 1..Len(autoCalls) :
                   (autoCalls[j].idx > 0 /\ autoCalls'[j].idx = 0) =>
                       (~isDownloading' /\ (~autoCalls'[j].saved => error' # Null))]_vars

\* a lookup has come back with a record, and the download its timer started
\* has failed on all three requests: the message is shown and both flags
\* are false
C23_Witness ==
    /\ variant = "index"
    /\ lookups = <<>>
    /\ ~isLoading
    /\ Len(autoCalls) = 1
    /\ autoCalls[1].idx = 0
    /\ ~autoCalls[1].saved
    /\ dlPc = "idle"
    /\ ~isDownloading
    /\ error = "Download failed. The server might be blocking requests."

====
